---- MODULE Spec2Model ----
(***************************************************************************)
(* A model of the ctoption crate: CTOption<T, IS_SOME_VAL>, a container    *)
(* over MaybeUninit<T> whose presence tag is a const generic parameter,    *)
(* its safe and unsafe operations (src/src/lib.rs), the typestate builder  *)
(* of tests/builder.rs and the const-generic Option of                     *)
(* tests/const_genericity.rs.                                              *)
(*                                                                         *)
(* A value of T is identified by a number of Objs; drops[v] counts how     *)
(* often T's cleanup (Drop for T) has been invoked on v.  The bits 0 stand *)
(* for a bit pattern that is no value of T at all.  A MaybeUninit<T> cell  *)
(* is [init, bits]: when init is FALSE the bits are whatever the memory    *)
(* held before, chosen nondeterministically when the cell is created.      *)
(***************************************************************************)
EXTENDS Integers, Sequences, FiniteSets

VARIABLES
    scope,      \* scope[s]: the binding held by local variable s
    given,      \* given[s]: how the caller produced the binding in s
    drops,      \* drops[b]: invocations of T's cleanup on the bits b
    made,       \* the values of T the caller has created so far
    last,       \* the last call: its input, its return value, its cleanups
    fields,     \* the Builder's five fields
    PARAM       \* the const generic parameter of my_const_generic_fn

vars == <<scope, given, drops, made, last, fields, PARAM>>

\* ------------------------------------------------------------------ bounds
MaxObjs == 2        \* values of T the caller may create
MaxDrops == 2       \* cap on the cleanup count of one bit pattern
MaxI32 == 5         \* the builder's i32 values are 0..MaxI32
MaxU32 == 63        \* the const parameter's u32 values are 0..MaxU32

\* The locals of the safe scenarios, and the one local of the scenarios that
\* also use the unsafe operations and to_option.
Slots == {"a", "b"}
OneSlot == {"a"}
Objs == 1..MaxObjs
Bits == 0..MaxObjs

\* ------------------------------------------------- core::mem::MaybeUninit
MaybeUninit_new(val) == [init |-> TRUE, bits |-> val]

\* The contents of fresh uninitialized memory are arbitrary: g is that choice.
MaybeUninit_uninit(g) == [init |-> FALSE, bits |-> g]

\* Runs T's cleanup in place on whatever the cell holds.
assume_init_drop(cell) == <<cell.bits>>

\* ------------------------------------------------ core::mem::ManuallyDrop
\* A ManuallyDrop<X> owns x and never runs X's destructor.
ManuallyDrop_new(x) == [md |-> x]

ManuallyDrop_into_inner(m) == m.md

\* ---------------------------------------------------------------- CTOption
\* CTOption<T, IS_SOME_VAL>(MaybeUninit<T>): the tag is the const parameter.
CTOption(IS_SOME_VAL, cell) == [kind |-> "CTOption", tag |-> IS_SOME_VAL, cell |-> cell]

Empty == [kind |-> "empty"]
OwnedT(bits) == [kind |-> "T", bits |-> bits]
Some(x) == [kind |-> "Option", arm |-> "Some", val |-> x]
None == [kind |-> "Option", arm |-> "None"]

\* impl Drop for CTOption: the bits on which T's cleanup is invoked.
\* Faulty variant: the destructor without the test of IS_SOME_VAL.
drop_no_tag_check(self) == assume_init_drop(self.cell)

drop(self) == IF self.tag THEN assume_init_drop(self.cell) ELSE <<>>

\* Faulty variant: new that leaves the cell uninitialized.
CTSome_new_uninit(val) == CTOption(TRUE, MaybeUninit_uninit(0))

CTSome_new(val) == CTOption(TRUE, MaybeUninit_new(val))

\* A call's outcome is what it returns, the bits T's cleanup ran on during the
\* call, and whether the call read the storage as a T.
\* Faulty variants: into_inner that returns unrelated bits, and into_inner
\* that leaves the destructor of self armed.
into_inner_default(self) ==
    [out |-> 0, cleaned |-> <<>>, readT |-> FALSE]

into_inner_not_disarmed(self) ==
    [out |-> self.cell.bits, cleaned |-> drop(self), readT |-> TRUE]

into_inner(self) ==
    LET md_ctsome == ManuallyDrop_new(self)
        u == [md_ctsome |-> md_ctsome]
        \* union read: the bytes of the CTSome<T> taken as a T
        md_inner == ManuallyDrop_new(u.md_ctsome.md.cell.bits)
    IN  [out |-> ManuallyDrop_into_inner(md_inner), cleaned |-> <<>>, readT |-> TRUE]

\* Faulty variant: the reinterpretation without ManuallyDrop, so that the
\* destructor of self runs.
assume_const_generic_val_dropping(self, IS_SOME_VAL) ==
    [out |-> CTOption(IS_SOME_VAL, self.cell), cleaned |-> drop(self), readT |-> TRUE]

assume_const_generic_val(self, IS_SOME_VAL) ==
    LET md_ctsome == ManuallyDrop_new(self)
        u == [md_ctsome |-> md_ctsome]
        md_ctopt == ManuallyDrop_new(CTOption(IS_SOME_VAL, u.md_ctsome.md.cell))
    IN  [out |-> ManuallyDrop_into_inner(md_ctopt), cleaned |-> <<>>, readT |-> FALSE]

CTNone_new(g) == CTOption(FALSE, MaybeUninit_uninit(g))

\* Faulty variant: insert that reinterprets without writing val to the cell.
insert_no_write(self, val) ==
    [out |-> CTOption(TRUE, self.cell), cleaned |-> <<>>, readT |-> FALSE]

insert(self, val) ==
    LET self1 == [self EXCEPT !.cell = MaybeUninit_new(val)]
        md_ctnone == ManuallyDrop_new(self1)
        u == [md_ctnone |-> md_ctnone]
        md_ctsome == ManuallyDrop_new(CTOption(TRUE, u.md_ctnone.md.cell))
    IN  [out |-> ManuallyDrop_into_inner(md_ctsome), cleaned |-> <<>>, readT |-> FALSE]

from_maybe_uninit(val, IS_SOME_VAL) == CTOption(IS_SOME_VAL, val)

\* Faulty variant: the tag inverted.
is_some_negated(self) == ~self.tag

is_some(self) == self.tag

assume_some(self) ==
    LET md_ctopt == ManuallyDrop_new(self)
        u == [md_ctopt |-> md_ctopt]
        md_ctsome == ManuallyDrop_new(CTOption(TRUE, u.md_ctopt.md.cell))
    IN  [out |-> ManuallyDrop_into_inner(md_ctsome), cleaned |-> <<>>, readT |-> FALSE]

assume_none(self) ==
    LET md_ctopt == ManuallyDrop_new(self)
        u == [md_ctopt |-> md_ctopt]
        md_ctnone == ManuallyDrop_new(CTOption(FALSE, u.md_ctopt.md.cell))
    IN  [out |-> ManuallyDrop_into_inner(md_ctnone), cleaned |-> <<>>, readT |-> FALSE]

\* Faulty variant: the storage read as a T whatever IS_SOME_VAL is.
to_option_reads_always(opt) ==
    [out |-> Some(opt.cell.bits), cleaned |-> <<>>, readT |-> TRUE]

\* opt_const_generic::to_option
to_option(opt) ==
    LET storage == opt.cell     \* transmute_unchecked: the container is consumed
    IN  IF opt.tag
        THEN LET some == from_maybe_uninit(storage, TRUE)
                 r == into_inner(some)
             IN  [out |-> Some(r.out), cleaned |-> r.cleaned, readT |-> r.readT]
        ELSE [out |-> None, cleaned |-> <<>>, readT |-> FALSE]

\* ------------------------------------------------------- cleanup accounting
Count(seq, b) == Cardinality({i \in 1..Len(seq) : seq[i] = b})

Cleaned(cleaned) == [b \in Bits |-> drops[b] + Count(cleaned, b)]

CanClean(cleaned) == \A b \in Bits : Cleaned(cleaned)[b] <= MaxDrops

\* A call that returns x, cleans nothing up and reads no storage as a T.
Ret(x) == [out |-> x, cleaned |-> <<>>, readT |-> FALSE]

\* The record of a call on local s: its argument, the binding it consumed or
\* looked at and how the caller had produced that binding, and its outcome.
Call(op, s, arg, r) ==
    [op |-> op, slot |-> s, arg |-> arg, before |-> scope[s], how |-> given[s],
     ret |-> r.out, cleaned |-> r.cleaned, readT |-> r.readT]

NoCall == [op |-> "none"]
NotGiven == [by |-> "none"]
NoBuilder == [kind |-> "none"]
NoParam == [kind |-> "none"]

\* Values are interchangeable identities: they are numbered as they are made.
Fresh(v) == v \notin made /\ \A w \in Objs : w < v => w \in made

\* ------------------------------------------------------------- the machine
Init ==
    /\ scope = [s \in Slots |-> Empty]
    /\ given = [s \in Slots |-> NotGiven]
    /\ drops = [b \in Bits |-> 0]
    /\ made = {}
    /\ last = NoCall
    /\ fields = NoBuilder
    /\ PARAM = NoParam

\* let s = CTSome::new(v);
CallCTSomeNew(s, v) ==
    /\ scope[s] = Empty
    /\ Fresh(v)
    /\ made' = made \cup {v}
    /\ scope' = [scope EXCEPT ![s] = CTSome_new(v)]
    /\ given' = [given EXCEPT ![s] = [by |-> "new", arg |-> v]]
    /\ last' = Call("new", s, <<v>>, Ret(CTSome_new(v)))
    /\ UNCHANGED <<drops, fields, PARAM>>

\* let s = CTNone::new();
CallCTNoneNew(s, g) ==
    /\ scope[s] = Empty
    /\ scope' = [scope EXCEPT ![s] = CTNone_new(g)]
    /\ given' = [given EXCEPT ![s] = [by |-> "none_new"]]
    /\ last' = Call("none_new", s, <<>>, Ret(CTNone_new(g)))
    /\ UNCHANGED <<drops, made, fields, PARAM>>

\* let s = s.insert(v);     (s: CTNone<T>)
CallInsert(s, v) ==
    /\ scope[s].kind = "CTOption"
    /\ scope[s].tag = FALSE
    /\ Fresh(v)
    /\ LET r == insert(scope[s], v)
       IN  /\ CanClean(r.cleaned)
           /\ drops' = Cleaned(r.cleaned)
           /\ scope' = [scope EXCEPT ![s] = r.out]
           /\ last' = Call("insert", s, <<v>>, r)
    /\ made' = made \cup {v}
    /\ given' = [given EXCEPT ![s] =
                    [by |-> "insert", arg |-> v, prior |-> scope[s].cell.bits]]
    /\ UNCHANGED <<fields, PARAM>>

\* let s = s.into_inner();  (s: CTSome<T>)
CallIntoInner(s) ==
    /\ scope[s].kind = "CTOption"
    /\ scope[s].tag = TRUE
    /\ LET r == into_inner(scope[s])
       IN  /\ CanClean(r.cleaned)
           /\ drops' = Cleaned(r.cleaned)
           /\ scope' = [scope EXCEPT ![s] = OwnedT(r.out)]
           /\ last' = Call("into_inner", s, <<>>, r)
    /\ UNCHANGED <<given, made, fields, PARAM>>

\* s.is_some();
CallIsSome(s) ==
    /\ scope[s].kind = "CTOption"
    /\ last' = Call("is_some", s, <<>>, Ret(is_some(scope[s])))
    /\ UNCHANGED <<scope, given, drops, made, fields, PARAM>>

\* let s = unsafe { s.assume_const_generic_val::<t>() };   (s: CTSome<T>)
CallAssumeConstGenericVal(s, t) ==
    /\ scope[s].kind = "CTOption"
    /\ scope[s].tag = TRUE
    /\ LET r == assume_const_generic_val(scope[s], t)
       IN  /\ CanClean(r.cleaned)
           /\ drops' = Cleaned(r.cleaned)
           /\ scope' = [scope EXCEPT ![s] = r.out]
           /\ last' = Call("assume_const_generic_val", s, <<t>>, r)
    /\ given' = [given EXCEPT ![s] = [by |-> "assume"]]
    /\ UNCHANGED <<made, fields, PARAM>>

\* let s = unsafe { s.assume_some() };
CallAssumeSome(s) ==
    /\ scope[s].kind = "CTOption"
    /\ LET r == assume_some(scope[s])
       IN  /\ CanClean(r.cleaned)
           /\ drops' = Cleaned(r.cleaned)
           /\ scope' = [scope EXCEPT ![s] = r.out]
           /\ last' = Call("assume_some", s, <<TRUE>>, r)
    /\ given' = [given EXCEPT ![s] = [by |-> "assume"]]
    /\ UNCHANGED <<made, fields, PARAM>>

\* let s = unsafe { s.assume_none() };
CallAssumeNone(s) ==
    /\ scope[s].kind = "CTOption"
    /\ LET r == assume_none(scope[s])
       IN  /\ CanClean(r.cleaned)
           /\ drops' = Cleaned(r.cleaned)
           /\ scope' = [scope EXCEPT ![s] = r.out]
           /\ last' = Call("assume_none", s, <<FALSE>>, r)
    /\ given' = [given EXCEPT ![s] = [by |-> "assume"]]
    /\ UNCHANGED <<made, fields, PARAM>>

\* let s = to_option(s);
CallToOption(s) ==
    /\ scope[s].kind = "CTOption"
    /\ LET r == to_option(scope[s])
       IN  /\ CanClean(r.cleaned)
           /\ drops' = Cleaned(r.cleaned)
           /\ scope' = [scope EXCEPT ![s] = r.out]
           /\ last' = Call("to_option", s, <<>>, r)
    /\ UNCHANGED <<given, made, fields, PARAM>>

\* s: CTOption<T, _> goes out of scope: impl Drop for CTOption runs.
ScopeExitCTOption(s) ==
    /\ scope[s].kind = "CTOption"
    /\ LET cleaned == drop(scope[s])
       IN  /\ CanClean(cleaned)
           /\ drops' = Cleaned(cleaned)
           /\ last' = Call("drop", s, <<>>,
                           [out |-> Empty, cleaned |-> cleaned, readT |-> cleaned # <<>>])
    /\ scope' = [scope EXCEPT ![s] = Empty]
    /\ given' = [given EXCEPT ![s] = NotGiven]
    /\ UNCHANGED <<made, fields, PARAM>>

\* s: T, or s: Option<T>, goes out of scope: its owner cleans the value up.
ScopeExitOwned(s) ==
    /\ scope[s].kind \in {"T", "Option"}
    /\ LET x == scope[s]
           cleaned == IF x.kind = "T" THEN <<x.bits>>
                      ELSE IF x.arm = "Some" THEN <<x.val>> ELSE <<>>
       IN  /\ CanClean(cleaned)
           /\ drops' = Cleaned(cleaned)
           /\ last' = Call("drop_owned", s, <<>>,
                           [out |-> Empty, cleaned |-> cleaned, readT |-> FALSE])
    /\ scope' = [scope EXCEPT ![s] = Empty]
    /\ given' = [given EXCEPT ![s] = NotGiven]
    /\ UNCHANGED <<made, fields, PARAM>>

SafeNext ==
    \/ \E s \in Slots, v \in Objs : CallCTSomeNew(s, v)
    \/ \E s \in Slots, g \in Bits : CallCTNoneNew(s, g)
    \/ \E s \in Slots, v \in Objs : CallInsert(s, v)
    \/ \E s \in Slots : CallIntoInner(s)
    \/ \E s \in Slots : CallIsSome(s)
    \/ \E s \in Slots : ScopeExitCTOption(s)
    \/ \E s \in Slots : ScopeExitOwned(s)

Next ==
    \/ \E s \in OneSlot, v \in Objs : CallCTSomeNew(s, v)
    \/ \E s \in OneSlot, g \in Bits : CallCTNoneNew(s, g)
    \/ \E s \in OneSlot, v \in Objs : CallInsert(s, v)
    \/ \E s \in OneSlot : CallIntoInner(s)
    \/ \E s \in OneSlot : CallIsSome(s)
    \/ \E s \in OneSlot, t \in BOOLEAN : CallAssumeConstGenericVal(s, t)
    \/ \E s \in OneSlot : CallAssumeSome(s)
    \/ \E s \in OneSlot : CallAssumeNone(s)
    \/ \E s \in OneSlot : CallToOption(s)
    \/ \E s \in OneSlot : ScopeExitCTOption(s)
    \/ \E s \in OneSlot : ScopeExitOwned(s)

\* Every operation of the crate on one local, the unsafe ones included.
Spec == Init /\ [][Next]_vars

\* Only the safe operations on CTSome and CTNone, on two locals.
SafeSpec == Init /\ [][SafeNext]_vars

\* ------------------------------------------------ tests/builder.rs: Builder
I32 == 0..MaxI32

\* What a fresh uninitialized i32 cell may hold.
StaleI32 == {0, MaxI32}

Builder(f0, f1, f2, f3, f4) ==
    [kind |-> "Builder", field0 |-> f0, field1 |-> f1, field2 |-> f2,
     field3 |-> f3, field4 |-> f4]

Moved == [kind |-> "moved"]

\* Builder::new: five CTNone::new(), each over memory of its own.
Builder_new(g) == Builder(CTNone_new(g[1]), CTNone_new(g[2]), CTNone_new(g[3]),
                          CTNone_new(g[4]), CTNone_new(g[5]))

set_field0(self, val) ==
    Builder(CTSome_new(val), self.field1, self.field2, self.field3, self.field4)

set_field1(self, val) ==
    Builder(self.field0, CTSome_new(val), self.field2, self.field3, self.field4)

set_field2(self, val) ==
    Builder(self.field0, self.field1, CTSome_new(val), self.field3, self.field4)

set_field3(self, val) ==
    Builder(self.field0, self.field1, self.field2, CTSome_new(val), self.field4)

set_field4(self, val) ==
    Builder(self.field0, self.field1, self.field2, self.field3, CTSome_new(val))

AsUsize(b) == IF b THEN 1 ELSE 0

\* const LEN
LEN(self) ==
    AsUsize(self.field0.tag) + AsUsize(self.field1.tag) + AsUsize(self.field2.tag)
        + AsUsize(self.field3.tag) + AsUsize(self.field4.tag)

\* arr[i] = x: an index out of range panics (arr is indexed from 0 in the code).
Store(st, x) ==
    IF st.panic \/ st.i >= Len(st.arr)
    THEN [st EXCEPT !.panic = TRUE]
    ELSE [st EXCEPT !.arr[st.i + 1] = x]

\* if B { arr[i] = unsafe { field.assume_some() }.into_inner(); i += 1; }
\* (the last field's block leaves i alone)
Pack(st, field, increment) ==
    IF field.tag
    THEN LET w == Store(st, into_inner(assume_some(field).out).out)
         IN  IF increment THEN [w EXCEPT !.i = w.i + 1] ELSE w
    ELSE st

\* Faulty variant: the block of field2 without its i += 1.
build_skips_an_increment(self) ==
    LET st0 == [arr |-> [j \in 1..LEN(self) |-> 0], i |-> 0, panic |-> FALSE]
        st1 == Pack(st0, self.field0, TRUE)
        st2 == Pack(st1, self.field1, TRUE)
        st3 == Pack(st2, self.field2, FALSE)
        st4 == Pack(st3, self.field3, TRUE)
        st5 == Pack(st4, self.field4, FALSE)
    IN  [arr |-> st5.arr, panic |-> st5.panic]

build(self) ==
    LET st0 == [arr |-> [j \in 1..LEN(self) |-> 0], i |-> 0, panic |-> FALSE]
        st1 == Pack(st0, self.field0, TRUE)
        st2 == Pack(st1, self.field1, TRUE)
        st3 == Pack(st2, self.field2, TRUE)
        st4 == Pack(st3, self.field3, TRUE)
        st5 == Pack(st4, self.field4, FALSE)
    IN  [arr |-> st5.arr, panic |-> st5.panic]

\* let b = Builder::new();  (i32 has no cleanup: drops plays no part here)
BuilderInit ==
    /\ scope = [s \in Slots |-> Empty]
    /\ given = [s \in Slots |-> NotGiven]
    /\ drops = [b \in Bits |-> 0]
    /\ made = {}
    /\ last = NoCall
    /\ fields \in {Builder_new(g) : g \in [1..5 -> StaleI32]}
    /\ PARAM = NoParam

BuilderCall(op, k, arg, ret) == [op |-> op, slot |-> k, arg |-> arg, ret |-> ret]

\* let b = b.set_field0(val);   (offered on Builder<false, ..> only)
CallSetField0(val) ==
    /\ fields.kind = "Builder"
    /\ fields.field0.tag = FALSE
    /\ fields' = set_field0(fields, val)
    /\ last' = BuilderCall("set_field", 0, <<val>>, <<>>)
    /\ UNCHANGED <<scope, given, drops, made, PARAM>>

CallSetField1(val) ==
    /\ fields.kind = "Builder"
    /\ fields.field1.tag = FALSE
    /\ fields' = set_field1(fields, val)
    /\ last' = BuilderCall("set_field", 1, <<val>>, <<>>)
    /\ UNCHANGED <<scope, given, drops, made, PARAM>>

CallSetField2(val) ==
    /\ fields.kind = "Builder"
    /\ fields.field2.tag = FALSE
    /\ fields' = set_field2(fields, val)
    /\ last' = BuilderCall("set_field", 2, <<val>>, <<>>)
    /\ UNCHANGED <<scope, given, drops, made, PARAM>>

CallSetField3(val) ==
    /\ fields.kind = "Builder"
    /\ fields.field3.tag = FALSE
    /\ fields' = set_field3(fields, val)
    /\ last' = BuilderCall("set_field", 3, <<val>>, <<>>)
    /\ UNCHANGED <<scope, given, drops, made, PARAM>>

CallSetField4(val) ==
    /\ fields.kind = "Builder"
    /\ fields.field4.tag = FALSE
    /\ fields' = set_field4(fields, val)
    /\ last' = BuilderCall("set_field", 4, <<val>>, <<>>)
    /\ UNCHANGED <<scope, given, drops, made, PARAM>>

\* let v = b.build();   the builder is consumed; last.arg keeps what it was.
CallBuild ==
    /\ fields.kind = "Builder"
    /\ fields' = Moved
    /\ last' = BuilderCall("build", 0, fields, build(fields))
    /\ UNCHANGED <<scope, given, drops, made, PARAM>>

BuilderNext ==
    \/ \E val \in I32 : CallSetField0(val)
    \/ \E val \in I32 : CallSetField1(val)
    \/ \E val \in I32 : CallSetField2(val)
    \/ \E val \in I32 : CallSetField3(val)
    \/ \E val \in I32 : CallSetField4(val)
    \/ CallBuild

BuilderSpec == BuilderInit /\ [][BuilderNext]_vars

\* ------------------------- workarounds::Option, tests/const_genericity.rs
U32 == 0..MaxU32

\* workarounds::Option<T>, the enum usable as a const generic parameter
WSome(x) == [kind |-> "workarounds::Option", arm |-> "Some", val |-> x]
WNone == [kind |-> "workarounds::Option", arm |-> "None"]

\* Faulty variant: every arm mapped to None.
into_core_loses_value(self) == None

into_core(self) ==
    IF self.arm = "Some" THEN Some(self.val) ELSE None

Constant(v) == [kind |-> "Evaluation", arm |-> "Constant", val |-> v]
Dynamic == [kind |-> "Evaluation", arm |-> "Dynamic"]

my_const_generic_fn(P) ==
    LET opt == into_core(P)
    IN  IF opt.arm = "Some" THEN Constant(opt.val) ELSE Dynamic

\* my_const_generic_fn::<{ PARAM }> is instantiated with any parameter.
ConvInit ==
    /\ scope = [s \in Slots |-> Empty]
    /\ given = [s \in Slots |-> NotGiven]
    /\ drops = [b \in Bits |-> 0]
    /\ made = {}
    /\ last = NoCall
    /\ fields = NoBuilder
    /\ PARAM \in {WNone} \cup {WSome(x) : x \in U32}

CallMyConstGenericFn ==
    /\ last = NoCall
    /\ last' = [op |-> "my_const_generic_fn", opt |-> into_core(PARAM),
                ret |-> my_const_generic_fn(PARAM)]
    /\ UNCHANGED <<scope, given, drops, made, fields, PARAM>>

ConvNext == CallMyConstGenericFn

ConvSpec == ConvInit /\ [][ConvNext]_vars

\* ================================================================== claims

\* C1: for every value v, CTSome::new(v).into_inner() returns v, and the
\* caller then owns exactly that value.
C1_NewIntoInnerRoundTrip ==
    last.op = "into_inner" /\ last.how.by = "new"
        => /\ last.ret = last.how.arg
           /\ scope[last.slot] = OwnedT(last.how.arg)

C1_Witness ==
    /\ last.op = "into_inner"
    /\ last.how.by = "new"
    /\ last.ret \in Objs
    /\ scope[last.slot] = OwnedT(last.how.arg)

\* C2: CTNone::new().insert(v) is defined on every Absent container, whatever
\* its uninitialized cell held, and yields the Present container of v with no
\* cleanup; into_inner of it returns v, not the cell's prior content.
C2_InsertThenIntoInner ==
    /\ \A s \in Slots : scope[s].kind = "CTOption" /\ ~scope[s].tag
          => \A v \in Objs : insert(scope[s], v) = Ret(CTSome_new(v))
    /\ last.op = "insert"
          => scope[last.slot] = CTSome_new(last.arg[1]) /\ last.cleaned = <<>>
    /\ last.op = "into_inner" /\ last.how.by = "insert"
          => last.ret = last.how.arg /\ scope[last.slot] = OwnedT(last.how.arg)

C2_Witness ==
    /\ last.op = "into_inner"
    /\ last.how.by = "insert"
    /\ last.how.prior \in Objs
    /\ last.how.prior # last.how.arg
    /\ last.ret = last.how.arg

\* C3: when a container goes out of scope, T's cleanup is invoked exactly
\* once, on the cell's contents, if its tag is true, and not at all if its
\* tag is false; for an Absent container nothing is done to the cell.
C3_DropFollowsTag ==
    last.op = "drop"
        => /\ last.before.tag => last.cleaned = <<last.before.cell.bits>>
           /\ ~last.before.tag => last.cleaned = <<>> /\ ~last.readT
           /\ scope[last.slot] = Empty

C3_Witness ==
    /\ last.op = "drop"
    /\ last.how.by \in {"new", "insert"}
    /\ last.before.tag
    /\ last.before.cell.init
    /\ drops[last.before.cell.bits] = 1

\* C4: under the safe operations T's cleanup runs at most once on a value:
\* into_inner and insert run no cleanup, an extracted value the caller still
\* owns has not been cleaned up, and nothing is cleaned up twice.
C4_NoDoubleCleanup ==
    /\ \A b \in Bits : drops[b] <= 1
    /\ last.op \in {"into_inner", "insert"} => last.cleaned = <<>>
    /\ \A s \in Slots : scope[s].kind = "T" => drops[scope[s].bits] = 0

C4_Witness ==
    /\ last.op = "drop_owned"
    /\ last.before.kind = "T"
    /\ last.how.by \in {"new", "insert"}
    /\ drops[last.before.bits] = 1

\* C5: under the safe operations a live container's tag is true exactly when
\* its cell holds an initialized value of T that has not been cleaned up, and
\* is_some returns that tag and leaves the container as it was.
C5_TagIffInitialized ==
    /\ \A s \in Slots : scope[s].kind = "CTOption"
          => /\ scope[s].tag <=> scope[s].cell.init
             /\ scope[s].tag
                  => scope[s].cell.bits \in made /\ drops[scope[s].cell.bits] = 0
    /\ last.op = "is_some"
          => last.ret = last.before.tag /\ scope[last.slot] = last.before

C5_Witness ==
    /\ last.op = "is_some"
    /\ last.ret = TRUE
    /\ \E s \in Slots : scope[s].kind = "CTOption" /\ ~scope[s].tag

\* C6: to_option returns Some(v) for a Present container holding v and None
\* for an Absent one, reads no storage as a T in the Absent case, and runs no
\* cleanup in either.
C6_ToOption ==
    last.op = "to_option"
        => /\ last.before.tag => last.ret = Some(last.before.cell.bits)
           /\ last.before.tag /\ last.how.by \in {"new", "insert"}
                => last.ret = Some(last.how.arg)
           /\ ~last.before.tag => last.ret = None /\ ~last.readT
           /\ last.cleaned = <<>>
           /\ scope[last.slot] = last.ret

C6_Witness ==
    /\ last.op = "to_option"
    /\ last.how.by = "new"
    /\ last.ret = Some(last.how.arg)
    /\ drops[last.how.arg] = 0

\* C7: assume_const_generic_val, assume_some and assume_none return the
\* container with the target tag over the same cell and run no cleanup; the
\* destruction of a reinterpreted container follows its tag alone, whatever
\* the cell really holds.
AssumeOps == {"assume_const_generic_val", "assume_some", "assume_none"}

C7_ReinterpretationTouchesNothing ==
    /\ last.op \in AssumeOps
          => /\ scope[last.slot] = CTOption(last.arg[1], last.before.cell)
             /\ last.cleaned = <<>>
             /\ ~last.readT
    /\ last.op = "drop" /\ last.how.by = "assume"
          => last.cleaned = (IF last.before.tag THEN <<last.before.cell.bits>>
                                                ELSE <<>>)

\* A value leaked earlier (made, never cleaned up, owned by no local), and now
\* the cleanup of uninitialized storage.
C7_Witness ==
    /\ last.op = "drop"
    /\ last.how.by = "assume"
    /\ last.before.tag
    /\ ~last.before.cell.init
    /\ last.cleaned = <<last.before.cell.bits>>
    /\ \E v \in made : drops[v] = 0 /\ \A s \in Slots : scope[s] = Empty

\* C8: build returns the values of the Present fields in ascending field
\* order, as many as there are Present fields, without an out-of-range
\* write; each set_field_k makes field k Present with the given value and
\* leaves the other four fields as they were.
FieldsOf(b) == <<b.field0, b.field1, b.field2, b.field3, b.field4>>

IsPresent(f) == f.tag

PresentValues(b) ==
    LET p == SelectSeq(FieldsOf(b), IsPresent)
    IN  [j \in 1..Len(p) |-> p[j].cell.bits]

BuildPacksPresentFields ==
    last.op = "build"
        => /\ ~last.ret.panic
           /\ last.ret.arr = PresentValues(last.arg)
           /\ Len(last.ret.arr) = Cardinality({j \in 1..5 : FieldsOf(last.arg)[j].tag})

SetFieldChangesOneField ==
    fields.kind = "Builder" /\ fields'.kind = "Builder" /\ fields' # fields
        => /\ last'.op = "set_field"
           /\ ~FieldsOf(fields)[last'.slot + 1].tag
           /\ \A j \in 1..5 :
                FieldsOf(fields')[j] = IF j = last'.slot + 1
                                       THEN CTSome_new(last'.arg[1])
                                       ELSE FieldsOf(fields)[j]

C8_BuilderPacks == []BuildPacksPresentFields /\ [][SetFieldChangesOneField]_vars

C8_Witness ==
    /\ last.op = "build"
    /\ ~last.arg.field4.tag
    /\ last.ret.arr = <<1, 2, 3, 3>>

\* C9: into_core turns workarounds::Option::Some(x) into core's Some(x) and
\* workarounds::Option::None into core's None, for every x.
C9_IntoCore ==
    last.op = "my_const_generic_fn"
        => /\ PARAM.arm = "Some"
                => last.opt = Some(PARAM.val) /\ last.ret = Constant(PARAM.val)
           /\ PARAM.arm = "None" => last.opt = None /\ last.ret = Dynamic

C9_Witness ==
    /\ last.op = "my_const_generic_fn"
    /\ PARAM = WSome(42)
    /\ last.ret = Constant(42)

====
